---- MODULE Spec2Model ----
(***************************************************************************)
(* HybridSpaceManager of Masskill_OS_final.py: a bitmap of disk blocks and *)
(* a singly linked list of free extents kept side by side, plus the groups *)
(* of free blocks recomputed from the bitmap after every mutation.         *)
(*                                                                         *)
(* The linked list is modelled as a heap of FreeExtent nodes addressed by  *)
(* node identifiers, with free_list the identifier of the head node.       *)
(***************************************************************************)
EXTENDS Integers, Sequences, FiniteSets, TLC

\* ------------------------------------------------------------------ bounds
\* Largest disk_size under disciplined use.
MaxDiskDisciplined == 5
\* Largest disk_size when deallocate may target free blocks.
MaxDisk == 3
\* Largest number of FreeExtent nodes a call may leave in the chain then.
MaxNodes == 2
\* Largest disk_size when the arguments are any integers.
MaxDiskAny == 2
\* Largest number of FreeExtent nodes a call may leave in the chain then.
MaxNodesAny == 1

\* ------------------------------------------------------------------- state
VARIABLES
    disk_size,   \* self.disk_size
    bitmap,      \* self.bitmap: block index -> 0 (free) / 1 (allocated)
    heap,        \* the live FreeExtent objects: node id -> [start, size, next]
    free_list,   \* self.free_list: id of the head node, or None
    groups,      \* self.groups: sequence of <<start, size>>
    last,        \* the last call made: the method and the value it returned
    before,      \* the arguments of the last call and the bitmap and extents
                 \* it found, when the call is observed and succeeded
    trip         \* the bitmap and extents found by a successful
                 \* allocate(start, n), when the call after it is
                 \* deallocate(start, n) and both are observed

vars == <<disk_size, bitmap, heap, free_list, groups, last, before, trip>>

\* Python's None as the value of a next / free_list reference.
None == 0

\* @dataclass FreeExtent(start, size, next)
FreeExtent(start, size, next) == [start |-> start, size |-> size, next |-> next]

\* The identifier of a newly constructed object: the least one that no live
\* object has.
FreshId(h) ==
    LET candidates == (1 .. (Cardinality(DOMAIN h) + 1)) \ DOMAIN h
    IN  CHOOSE id \in candidates : \A other \in candidates : id <= other

\* The identifiers of the nodes met from p on by following next, at most
\* fuel of them.
RECURSIVE IdsFrom(_, _, _)
IdsFrom(h, p, fuel) ==
    IF p = None \/ fuel = 0 THEN <<>>
    ELSE <<p>> \o IdsFrom(h, h[p].next, fuel - 1)

\* Following next from head reaches None: the chain has no cycle.
Acyclic(h, head) ==
    Len(IdsFrom(h, head, Cardinality(DOMAIN h) + 1)) <= Cardinality(DOMAIN h)

\* What a call leaves behind: the objects no reference leads to are
\* reclaimed, and, object identity being unobservable, the k-th node of the
\* chain is given the identifier k.  A chain with a cycle is left as it is.
Collect(h, head) ==
    LET ids == IdsFrom(h, head, Cardinality(DOMAIN h) + 1)
    IN  IF Acyclic(h, head)
        THEN [heap |-> [k \in 1 .. Len(ids) |->
                          [h[ids[k]] EXCEPT
                             !.next = IF k < Len(ids) THEN k + 1 ELSE None]],
              free_list |-> IF Len(ids) = 0 THEN None ELSE 1]
        ELSE [heap |-> [id \in {ids[k] : k \in 1 .. Len(ids)} |-> h[id]],
              free_list |-> head]

\* Head-to-tail traversal of the chain (current = self.free_list;
\* while current: ...; current = current.next), as <<start, size>> pairs.
RECURSIVE ExtentsFrom(_, _, _)
ExtentsFrom(h, current, fuel) ==
    IF current = None \/ fuel = 0 THEN <<>>
    ELSE <<(<<h[current].start, h[current].size>>)>>
            \o ExtentsFrom(h, h[current].next, fuel - 1)

FreeListExtents(h, head) == ExtentsFrom(h, head, Cardinality(DOMAIN h))

\* ----------------------------------------------------------- update_groups
\* One pass of the for loop of update_groups from index i on, followed by
\* the trailing "if in_group".
RECURSIVE ScanGroups(_, _, _, _, _, _)
ScanGroups(bm, ds, i, in_group, group_start, acc) ==
    IF i >= ds
    THEN IF in_group THEN Append(acc, <<group_start, ds - group_start>>)
                     ELSE acc
    ELSE IF bm[i] = 0
         THEN IF ~in_group
              THEN ScanGroups(bm, ds, i + 1, TRUE, i, acc)
              ELSE ScanGroups(bm, ds, i + 1, TRUE, group_start, acc)
         ELSE IF in_group
              THEN ScanGroups(bm, ds, i + 1, FALSE, group_start,
                              Append(acc, <<group_start, i - group_start>>))
              ELSE ScanGroups(bm, ds, i + 1, FALSE, group_start, acc)

\* A scan without the trailing "if in_group": the run that is still open at
\* the last block is not appended.
update_groups_DropsOpenRun(bm, ds) ==
    LET g == ScanGroups(bm, ds, 0, FALSE, 0, <<>>)
    IN  IF bm[ds - 1] = 0 THEN SubSeq(g, 1, Len(g) - 1) ELSE g

update_groups(bm, ds) == ScanGroups(bm, ds, 0, FALSE, 0, <<>>)

\* ------------------------------------------------------------------ manager
\* The manager object as a value: what a method reads and what it leaves.
Manager(ds, bm, h, head, gr) ==
    [disk_size |-> ds, bitmap |-> bm, heap |-> h, free_list |-> head,
     groups |-> gr]

\* HybridSpaceManager.__init__(disk_size)
init_manager(ds) ==
    LET bm == [i \in 0 .. (ds - 1) |-> 0]
    IN  Manager(ds, bm, (1 :> FreeExtent(0, ds, None)), 1,
                update_groups(bm, ds))

\* ---------------------------------------------------------------- allocate
\* A check that stops one block short of the end of the range.
AllBlocksFree_LastUnchecked(bm, start, n) ==
    \A i \in start .. (start + n - 2) : bm[i] # 1

\* "Check if all blocks are free": the loop returns at the first bitmap[i] == 1.
AllBlocksFree(bm, start, n) ==
    \A i \in start .. (start + n - 1) : bm[i] # 1

\* "Allocate blocks": bitmap[i] = 1 for i in range(start, start + n).
MarkAllocated(bm, start, n) ==
    [i \in DOMAIN bm |-> IF start <= i /\ i < start + n THEN 1 ELSE bm[i]]

\* A walk whose split gives the right remainder the size the extent had
\* minus n, forgetting the left remainder.
RECURSIVE AllocateWalk_WrongSplitSize(_, _, _, _, _, _)
AllocateWalk_WrongSplitSize(h, head, current, prev, start, n) ==
    IF current = None THEN [heap |-> h, free_list |-> head]
    ELSE
      LET c == h[current] IN
      IF c.start <= start /\ c.start + c.size >= start + n
      THEN IF c.start = start /\ c.size = n
           THEN IF prev # None
                THEN [heap |-> [h EXCEPT ![prev].next = c.next],
                      free_list |-> head]
                ELSE [heap |-> h, free_list |-> c.next]
           ELSE IF c.start = start
           THEN [heap |-> [h EXCEPT ![current].start = c.start + n,
                                    ![current].size = c.size - n],
                 free_list |-> head]
           ELSE IF c.start + c.size = start + n
           THEN [heap |-> [h EXCEPT ![current].size = c.size - n],
                 free_list |-> head]
           ELSE LET new_extent == FreshId(h)
                    h1 == (new_extent :>
                             FreeExtent(start + n, c.size - n, c.next)) @@ h
                IN  [heap |-> [h1 EXCEPT ![current].size = start - c.start,
                                         ![current].next = new_extent],
                     free_list |-> head]
      ELSE AllocateWalk_WrongSplitSize(h, head, c.next, current, start, n)

\* "Remove from linked list": the while loop of allocate, entered with
\* current and prev; returns the heap and the head it leaves.
RECURSIVE AllocateWalk(_, _, _, _, _, _)
AllocateWalk(h, head, current, prev, start, n) ==
    IF current = None THEN [heap |-> h, free_list |-> head]
    ELSE
      LET c == h[current] IN
      IF c.start <= start /\ c.start + c.size >= start + n
      THEN \* this extent covers the allocation; the loop breaks after it
           IF c.start = start /\ c.size = n
           THEN \* remove entire extent
                IF prev # None
                THEN [heap |-> [h EXCEPT ![prev].next = c.next],
                      free_list |-> head]
                ELSE [heap |-> h, free_list |-> c.next]
           ELSE IF c.start = start
           THEN \* trim from start
                [heap |-> [h EXCEPT ![current].start = c.start + n,
                                    ![current].size = c.size - n],
                 free_list |-> head]
           ELSE IF c.start + c.size = start + n
           THEN \* trim from end
                [heap |-> [h EXCEPT ![current].size = c.size - n],
                 free_list |-> head]
           ELSE \* split extent
                LET new_extent == FreshId(h)
                    h1 == (new_extent :>
                             FreeExtent(start + n,
                                        c.start + c.size - start - n,
                                        c.next)) @@ h
                IN  [heap |-> [h1 EXCEPT ![current].size = start - c.start,
                                         ![current].next = new_extent],
                     free_list |-> head]
      ELSE AllocateWalk(h, head, c.next, current, start, n)

\* An allocate whose check loop and marking loop are one loop: the blocks
\* before the first allocated one are already marked when it returns failure.
allocate_MarksWhileChecking(self, start, n) ==
    IF start < 0 \/ start + n > self.disk_size
    THEN [self |-> self, ret |-> <<FALSE, -1>>]
    ELSE IF ~AllBlocksFree(self.bitmap, start, n)
    THEN LET stop == CHOOSE i \in start .. (start + n - 1) :
                        /\ self.bitmap[i] = 1
                        /\ \A j \in start .. (i - 1) : self.bitmap[j] # 1
         IN  [self |-> [self EXCEPT
                          !.bitmap = MarkAllocated(self.bitmap, start,
                                                   stop - start)],
              ret |-> <<FALSE, -1>>]
    ELSE
      LET bm == MarkAllocated(self.bitmap, start, n)
          w  == AllocateWalk(self.heap, self.free_list, self.free_list, None,
                             start, n)
          c  == Collect(w.heap, w.free_list)
      IN  [self |-> Manager(self.disk_size, bm, c.heap, c.free_list,
                            update_groups(bm, self.disk_size)),
           ret  |-> <<TRUE, start>>]

\* HybridSpaceManager.allocate(start, n): the manager it leaves and the
\* (success, value) pair it returns.
allocate(self, start, n) ==
    IF start < 0 \/ start + n > self.disk_size
    THEN [self |-> self, ret |-> <<FALSE, -1>>]
    ELSE IF ~AllBlocksFree(self.bitmap, start, n)
    THEN [self |-> self, ret |-> <<FALSE, -1>>]
    ELSE
      LET bm == MarkAllocated(self.bitmap, start, n)
          w  == AllocateWalk(self.heap, self.free_list, self.free_list, None,
                             start, n)
          c  == Collect(w.heap, w.free_list)
      IN  [self |-> Manager(self.disk_size, bm, c.heap, c.free_list,
                            update_groups(bm, self.disk_size)),
           ret  |-> <<TRUE, start>>]

\* -------------------------------------------------------------- deallocate
\* A loop over range(start, start + n + 1): one block too many is cleared.
MarkFree_OneTooMany(bm, start, n) ==
    [i \in DOMAIN bm |-> IF start <= i /\ i <= start + n THEN 0 ELSE bm[i]]

\* "Mark as free in bitmap": bitmap[i] = 0 for i in range(start, start + n).
MarkFree(bm, start, n) ==
    [i \in DOMAIN bm |-> IF start <= i /\ i < start + n THEN 0 ELSE bm[i]]

\* while current and current.start < start: prev = current; current = current.next
RECURSIVE DeallocateWalk(_, _, _, _)
DeallocateWalk(h, current, prev, start) ==
    IF current # None /\ h[current].start < start
    THEN DeallocateWalk(h, h[current].next, current, start)
    ELSE [current |-> current, prev |-> prev]

\* A merge that adds the new extent's own count where the size of the
\* absorbed node belongs.
MergeWithNext_AddsOwnSize(h, new_extent, current, start, n) ==
    IF current # None /\ h[current].start = start + n
    THEN [h EXCEPT ![new_extent].size = @ + n,
                   ![new_extent].next = h[current].next]
    ELSE [h EXCEPT ![new_extent].next = current]

\* A merge that unlinks the absorbed node without taking over its blocks.
MergeWithNext_ForgetsSize(h, new_extent, current, start, n) ==
    IF current # None /\ h[current].start = start + n
    THEN [h EXCEPT ![new_extent].next = h[current].next]
    ELSE [h EXCEPT ![new_extent].next = current]

\* A deallocate that never looks at the node after the insertion point.
MergeWithNext_Never(h, new_extent, current, start, n) ==
    [h EXCEPT ![new_extent].next = current]

\* "Merge with next if adjacent": the heap once new_extent has absorbed
\* current or been linked in front of it.
MergeWithNext(h, new_extent, current, start, n) ==
    IF current # None /\ h[current].start = start + n
    THEN [h EXCEPT ![new_extent].size = @ + h[current].size,
                   ![new_extent].next = h[current].next]
    ELSE [h EXCEPT ![new_extent].next = current]

\* A deallocate that never looks at the node before the insertion point.
MergeWithPrev_Never(h, head, new_extent, prev, start) ==
    IF prev # None
    THEN [heap |-> [h EXCEPT ![prev].next = new_extent], free_list |-> head]
    ELSE [heap |-> h, free_list |-> new_extent]

\* "Merge with prev if adjacent": the heap and head once prev has absorbed
\* new_extent or new_extent has been linked after prev or made the head.
MergeWithPrev(h, head, new_extent, prev, start) ==
    IF prev # None /\ h[prev].start + h[prev].size = start
    THEN [heap |-> [h EXCEPT ![prev].size = @ + h[new_extent].size,
                             ![prev].next = h[new_extent].next],
          free_list |-> head]
    ELSE IF prev # None
         THEN [heap |-> [h EXCEPT ![prev].next = new_extent],
               free_list |-> head]
         ELSE [heap |-> h, free_list |-> new_extent]

\* An insertion that links the new extent in front of the head whatever the
\* walk found, and still links it behind prev.
InsertAndMerge_NextIsHead(h, head, start, n) ==
    LET new_extent == FreshId(h)
        h0 == (new_extent :> FreeExtent(start, n, None)) @@ h
    IN
    IF head = None
    THEN [heap |-> h0, free_list |-> new_extent]
    ELSE
      LET w  == DeallocateWalk(h0, head, None, start)
          h1 == MergeWithNext(h0, new_extent, head, start, n)
      IN  MergeWithPrev(h1, head, new_extent, w.prev, start)

\* "Add to linked list and merge if adjacent": the heap and head left by
\* the insertion of FreeExtent(start, n).
InsertAndMerge(h, head, start, n) ==
    LET new_extent == FreshId(h)
        h0 == (new_extent :> FreeExtent(start, n, None)) @@ h
    IN
    IF head = None
    THEN [heap |-> h0, free_list |-> new_extent]
    ELSE
      LET w  == DeallocateWalk(h0, head, None, start)
          h1 == MergeWithNext(h0, new_extent, w.current, start, n)
      IN  MergeWithPrev(h1, head, new_extent, w.prev, start)

\* HybridSpaceManager.deallocate(start, n): the manager it leaves and the
\* boolean it returns (as a one-element tuple).
deallocate(self, start, n) ==
    IF start + n > self.disk_size \/ start < 0
    THEN [self |-> self, ret |-> <<FALSE>>]
    ELSE
      LET bm == MarkFree(self.bitmap, start, n)
          w  == InsertAndMerge(self.heap, self.free_list, start, n)
          c  == Collect(w.heap, w.free_list)
      IN  [self |-> Manager(self.disk_size, bm, c.heap, c.free_list,
                            update_groups(bm, self.disk_size)),
           ret  |-> <<TRUE>>]

\* ----------------------------------------------------------------- actions
\* The manager as the variables hold it.
Self == Manager(disk_size, bitmap, heap, free_list, groups)

\* The variables take the fields of manager m.
Becomes(m) ==
    /\ disk_size' = m.disk_size
    /\ bitmap' = m.bitmap
    /\ heap' = m.heap
    /\ free_list' = m.free_list
    /\ groups' = m.groups

\* What is remembered of a call: the method and the value it returned.
Call(op, ret) == [op |-> op, ret |-> ret]

NoSnapshot == [armed |-> FALSE, op |-> "none", start |-> 0, n |-> 0,
               bitmap |-> <<>>, extents |-> <<>>]

\* The call about to be made and the bitmap and extents it finds.
Snapshot(op, start, n) ==
    [armed |-> TRUE, op |-> op, start |-> start, n |-> n, bitmap |-> bitmap,
     extents |-> FreeListExtents(heap, free_list)]

NoTrip == [armed |-> FALSE, bitmap |-> <<>>, extents |-> <<>>]

\* The call being made is observed: before and trip record it.
Observed(op, start, n) ==
    /\ before' = IF last'.ret[1] THEN Snapshot(op, start, n) ELSE NoSnapshot
    /\ trip' = IF /\ op = "deallocate"
                  /\ before.armed /\ before.op = "allocate"
                  /\ before.start = start /\ before.n = n
               THEN [armed |-> TRUE, bitmap |-> before.bitmap,
                     extents |-> before.extents]
               ELSE NoTrip

\* The call being made is not observed.
Unobserved ==
    /\ before' = NoSnapshot
    /\ trip' = NoTrip

\* A Reset is observed: before records the bitmap and extents it found.
ObservedReset ==
    /\ before' = Snapshot("reset", 0, 0)
    /\ trip' = NoTrip

\* manager = HybridSpaceManager(DISK_SIZE), for a disk of any size up to
\* largest.
Construct(largest) ==
    \E ds \in 1 .. largest :
        LET m == init_manager(ds) IN
        /\ disk_size = m.disk_size
        /\ bitmap = m.bitmap
        /\ heap = m.heap
        /\ free_list = m.free_list
        /\ groups = m.groups
        /\ last = Call("init", <<>>)
        /\ before = NoSnapshot
        /\ trip = NoTrip

\* on_allocate: manager.allocate(start, n) with the two integers entered.
on_allocate(start, n) ==
    LET r == allocate(Self, start, n) IN
    /\ Becomes(r.self)
    /\ last' = Call("allocate", r.ret)

\* on_deallocate: manager.deallocate(start, count) with the two integers
\* entered.
on_deallocate(start, n) ==
    LET r == deallocate(Self, start, n) IN
    /\ Becomes(r.self)
    /\ last' = Call("deallocate", r.ret)

\* A further call of update_groups() with no mutation in between.
on_update_groups ==
    /\ groups' = update_groups(bitmap, disk_size)
    /\ last' = Call("update_groups", <<>>)
    /\ UNCHANGED <<disk_size, bitmap, heap, free_list>>

\* A Reset that clears the bitmap and recomputes the groups but leaves the
\* free list as it is.
on_reset_KeepsFreeList ==
    /\ bitmap' = [i \in DOMAIN bitmap |-> 0]
    /\ groups' = update_groups([i \in DOMAIN bitmap |-> 0], disk_size)
    /\ last' = Call("reset", <<>>)
    /\ UNCHANGED <<disk_size, heap, free_list>>

\* The Reset button: manager.__init__(DISK_SIZE).
on_reset ==
    /\ Becomes(init_manager(disk_size))
    /\ last' = Call("reset", <<>>)

\* The integers entered: those of 0 .. disk_size and one beyond either end.
Args == (0 - 1) .. (disk_size + 1)

\* n >= 1, start >= 0, start + n <= disk_size
InRange(start, n) == n >= 1 /\ start >= 0 /\ start + n <= disk_size

\* every block of [start, start + n) is currently allocated
AllAllocated(start, n) == \A i \in start .. (start + n - 1) : bitmap[i] = 1

\* The chain a call leaves has at most cap nodes.
Within(cap) == Cardinality(DOMAIN heap') <= cap

\* Any calls with any integers.
Init == Construct(MaxDiskAny)

Next ==
    \/ \E start \in Args, n \in Args :
          on_allocate(start, n) /\ Within(MaxNodesAny) /\ Unobserved
    \/ \E start \in Args, n \in Args :
          on_deallocate(start, n) /\ Within(MaxNodesAny) /\ Unobserved
    \/ on_update_groups /\ Unobserved
    \/ on_reset /\ ObservedReset

Spec == Init /\ [][Next]_vars

\* Calls with n >= 1 and the range inside the disk; deallocate may target
\* blocks that are already free.
InitInRange == Construct(MaxDisk)

NextInRange ==
    \/ \E start \in Args, n \in Args :
          /\ InRange(start, n)
          /\ on_allocate(start, n) /\ Within(MaxNodes)
          /\ Observed("allocate", start, n)
    \/ \E start \in Args, n \in Args :
          /\ InRange(start, n)
          /\ on_deallocate(start, n) /\ Within(MaxNodes)
          /\ Observed("deallocate", start, n)

SpecInRange == InitInRange /\ [][NextInRange]_vars

\* Disciplined use: in-range calls, and deallocate only of allocated blocks.
InitDisciplined == Construct(MaxDiskDisciplined)

NextDisciplined ==
    \/ \E start \in Args, n \in Args :
          /\ InRange(start, n)
          /\ on_allocate(start, n)
          /\ Observed("allocate", start, n)
    \/ \E start \in Args, n \in Args :
          /\ InRange(start, n) /\ AllAllocated(start, n)
          /\ on_deallocate(start, n)
          /\ Observed("deallocate", start, n)

SpecDisciplined == InitDisciplined /\ [][NextDisciplined]_vars

\* ------------------------------------------------------------------ claims
\* The free list as the variables hold it, head to tail.
Extents == FreeListExtents(heap, free_list)

\* <<s, l>> is a maximal run of 0-bits of bm: l free blocks from s on, with
\* an allocated block or the end of the disk on either side.
IsMaximalFreeRun(bm, ds, s, l) ==
    /\ l >= 1 /\ s >= 0 /\ s + l <= ds
    /\ \A i \in s .. (s + l - 1) : bm[i] = 0
    /\ (s = 0 \/ bm[s - 1] = 1)
    /\ (s + l = ds \/ bm[s + l] = 1)

\* The maximal runs of 0-bits of bm in ascending order.
MaximalFreeRuns(bm, ds) ==
    LET runs == {r \in (0 .. (ds - 1)) \X (1 .. ds) :
                    IsMaximalFreeRun(bm, ds, r[1], r[2])}
    IN  CHOOSE seq \in [1 .. Cardinality(runs) -> runs] :
            \A j, k \in 1 .. Cardinality(runs) : j < k => seq[j][1] < seq[k][1]

\* Block i lies in some extent of the free list.
Covered(i) ==
    \E k \in 1 .. Len(Extents) :
        Extents[k][1] <= i /\ i < Extents[k][1] + Extents[k][2]

\* C1: under disciplined use the free list read head to tail equals the
\* maximal runs of 0-bits of the bitmap in ascending order, and so equals
\* self.groups, after every call.
C1_ViewsAgree ==
    /\ Extents = MaximalFreeRuns(bitmap, disk_size)
    /\ Extents = groups

\* A deallocate of allocated blocks has just succeeded and left a free list
\* of at least two extents.
C1_Witness ==
    /\ last.op = "deallocate" /\ last.ret[1]
    /\ before.armed /\ before.op = "deallocate"
    /\ Len(Extents) >= 2

\* C2: bitmap[i] == 1 if and only if block i is covered by no extent of the
\* free list, after every in-range call, deallocate of free blocks included.
C2_BitmapMatchesList ==
    \A i \in 0 .. (disk_size - 1) : (bitmap[i] = 1) <=> ~Covered(i)

\* C3: consecutive free-list nodes e, f satisfy e.start + e.size < f.start
\* after every in-range call, deallocate of free blocks included.
C3_ExtentsSeparated ==
    \A k \in 1 .. (Len(Extents) - 1) :
        Extents[k][1] + Extents[k][2] < Extents[k + 1][1]

\* C4: whenever allocate returns (False, -1) or deallocate returns False,
\* for any integer arguments in any reachable state, the bitmap, the free
\* list and the groups are what they were before the call.
C4_FailedCallInvisible ==
    [][(/\ last'.op \in {"allocate", "deallocate"}
        /\ last'.ret[1] = FALSE)
       => (/\ bitmap' = bitmap
           /\ Extents' = Extents
           /\ groups' = groups)]_vars

\* An allocate has just failed on a disk with an allocated block.
C4_Witness ==
    /\ last.op = "allocate" /\ last.ret = <<FALSE, -1>>
    /\ \E i \in 0 .. (disk_size - 1) : bitmap[i] = 1

\* The step is a call of allocate(start, n).
IsAllocateStep(start, n) ==
    LET r == allocate(Self, start, n) IN
    /\ last' = Call("allocate", r.ret)
    /\ Manager(disk_size', bitmap', heap', free_list', groups') = r.self

\* The step is a call of deallocate(start, n).
IsDeallocateStep(start, n) ==
    LET r == deallocate(Self, start, n) IN
    /\ last' = Call("deallocate", r.ret)
    /\ Manager(disk_size', bitmap', heap', free_list', groups') = r.self

\* C5: allocate(start, n) and deallocate(start, n) with n <= 0 return
\* failure for every start in any reachable state, and leave the bitmap and
\* the free list unchanged.
C5_NonPositiveCountRejected ==
    [][\A start \in Args, n \in Args :
          (n <= 0 /\ (IsAllocateStep(start, n) \/ IsDeallocateStep(start, n)))
          => (/\ last'.ret[1] = FALSE
              /\ bitmap' = bitmap
              /\ Extents' = Extents)]_vars

\* The preconditions of allocate(start, n) for n >= 1: the range lies in the
\* disk and every block of it is free.
AllocatePreconditions(start, n) ==
    /\ start >= 0 /\ start + n <= disk_size
    /\ \A i \in start .. (start + n - 1) : bitmap[i] = 0

\* C6: for n >= 1 in any reachable state allocate(start, n) returns success
\* with value start exactly when start >= 0, start + n <= disk_size and every
\* block of [start, start + n) is free; on success the blocks of the range
\* become 1 and every other block keeps its bit.
C6_AllocateExact ==
    \A start \in Args, n \in Args :
        n >= 1 =>
          LET r == allocate(Self, start, n) IN
          /\ (r.ret[1] = TRUE) <=> AllocatePreconditions(start, n)
          /\ r.ret[1] = TRUE =>
               /\ r.ret = <<TRUE, start>>
               /\ \A i \in 0 .. (disk_size - 1) :
                     r.self.bitmap[i] =
                        IF start <= i /\ i < start + n THEN 1 ELSE bitmap[i]

\* An allocate has just succeeded at the block it returned, on a disk that
\* still has a free block.
C6_Witness ==
    /\ last.op = "allocate" /\ last.ret[1] = TRUE
    /\ last.ret[2] \in 0 .. (disk_size - 1)
    /\ bitmap[last.ret[2]] = 1
    /\ \E j \in 0 .. (disk_size - 1) : bitmap[j] = 0

\* C7: a failed allocate(start, n) with n >= 1 tells a range violation from
\* an occupancy violation: the two kinds of failure never yield the same
\* result value.
C7_FailureKindsDistinct ==
    \A s1 \in Args, n1 \in Args, s2 \in Args, n2 \in Args :
        (/\ n1 >= 1 /\ n2 >= 1
         /\ (s1 < 0 \/ s1 + n1 > disk_size)
         /\ s2 >= 0 /\ s2 + n2 <= disk_size
         /\ \E i \in s2 .. (s2 + n2 - 1) : bitmap[i] = 1)
        => allocate(Self, s1, n1).ret # allocate(Self, s2, n2).ret

\* C8: when allocate(start, n) succeeds and deallocate(start, n) follows at
\* once, the deallocate succeeds and the bitmap and the free extents are
\* what they were before the allocate.
C8_RoundTrip ==
    (last.op = "deallocate" /\ trip.armed)
    => (/\ last.ret[1] = TRUE
        /\ bitmap = trip.bitmap
        /\ Extents = trip.extents)

\* A round trip has just been made from a free list of at least two extents.
C8_Witness ==
    /\ last.op = "deallocate" /\ trip.armed
    /\ Len(trip.extents) >= 2

\* Extents k and k+1 of ext are the ones that [start, start + n) bridges.
BridgeAt(ext, start, n, k) ==
    /\ ext[k][1] + ext[k][2] = start
    /\ ext[k + 1][1] = start + n

\* ext with extents k and k+1 replaced by one extent spanning them and the
\* n blocks between.
Bridged(ext, n, k) ==
    [j \in 1 .. (Len(ext) - 1) |->
        IF j < k THEN ext[j]
        ELSE IF j = k THEN <<ext[k][1], ext[k][2] + n + ext[k + 1][2]>>
        ELSE ext[j + 1]]

\* C9: under disciplined use, deallocate(start, n) of the allocated blocks
\* between consecutive extents P and S replaces P and S by the single extent
\* (P.start, P.size + n + S.size), leaves the other extents as they were and
\* in the same order, and shortens the list by one node.
C9_BridgingMerge ==
    (before.armed /\ before.op = "deallocate")
    => \A k \in 1 .. (Len(before.extents) - 1) :
          BridgeAt(before.extents, before.start, before.n, k)
          => /\ Extents = Bridged(before.extents, before.n, k)
             /\ Len(Extents) = Len(before.extents) - 1

\* A deallocate has just bridged two extents of a list of at least three.
C9_Witness ==
    /\ before.armed /\ before.op = "deallocate"
    /\ Len(before.extents) >= 3
    /\ \E k \in 1 .. (Len(before.extents) - 1) :
          BridgeAt(before.extents, before.start, before.n, k)

C11_ResetIsFresh ==
    last.op = "reset"
    => /\ DOMAIN bitmap = 0 .. (disk_size - 1)
       /\ DOMAIN bitmap = DOMAIN before.bitmap
       /\ \A i \in DOMAIN bitmap : bitmap[i] = 0
       /\ free_list # None
       /\ heap[free_list] = FreeExtent(0, disk_size, None)
       /\ Extents = <<(<<0, disk_size>>)>>
       /\ groups = <<(<<0, disk_size>>)>>

\* Reset has just been pressed on a manager that had an allocated block and
\* a free list other than the single extent (0, disk_size).
C11_Witness ==
    /\ last.op = "reset" /\ before.armed /\ before.op = "reset"
    /\ \E i \in DOMAIN before.bitmap : before.bitmap[i] = 1
    /\ before.extents # <<(<<0, disk_size>>)>>

\* C12: in any reachable state deallocate(start, n) with n >= 1 returns
\* success exactly when start >= 0 and start + n <= disk_size, whether the
\* blocks are allocated, free or mixed; on success the blocks of the range
\* become 0 and every other block keeps its bit.
C12_DeallocateExact ==
    \A start \in Args, n \in Args :
        n >= 1 =>
          LET r == deallocate(Self, start, n) IN
          /\ (r.ret = <<TRUE>>) <=> (start >= 0 /\ start + n <= disk_size)
          /\ (r.ret = <<FALSE>>) <=> ~(start >= 0 /\ start + n <= disk_size)
          /\ r.ret = <<TRUE>> =>
               \A i \in 0 .. (disk_size - 1) :
                  r.self.bitmap[i] =
                     IF start <= i /\ i < start + n THEN 0 ELSE bitmap[i]

\* A deallocate has just succeeded on a disk that has both a free and an
\* allocated block, so that a further deallocate can meet a mixed range.
C12_Witness ==
    /\ last.op = "deallocate" /\ last.ret = <<TRUE>>
    /\ \E i \in 0 .. (disk_size - 1) : bitmap[i] = 0
    /\ \E j \in 0 .. (disk_size - 1) : bitmap[j] = 1

\* Extent k of ext contains the range [start, start + n).
Contains(ext, start, n, k) ==
    /\ ext[k][1] <= start
    /\ start + n <= ext[k][1] + ext[k][2]

\* What is left of extent e once [start, start + n) is taken out of it:
\* the non-empty remainders, left one first.
Remainders(e, start, n) ==
    (IF start > e[1] THEN <<(<<e[1], start - e[1]>>)>> ELSE <<>>)
    \o (IF e[1] + e[2] > start + n
        THEN <<(<<start + n, e[1] + e[2] - start - n>>)>>
        ELSE <<>>)

\* C13: under disciplined use a successful allocate(start, n) changes only
\* the unique extent E that contains [start, start + n): E gives way, at its
\* place in the chain, to its non-empty remainders (E.start, start - E.start)
\* and (start + n, E.start + E.size - start - n) in that order, and every
\* other extent keeps its start, its size and its place.
C13_AllocateRepairsOneExtent ==
    (before.armed /\ before.op = "allocate")
    => LET old == before.extents
           start == before.start
           n == before.n
       IN  \E k \in 1 .. Len(old) :
              /\ Contains(old, start, n, k)
              /\ \A j \in 1 .. Len(old) : Contains(old, start, n, j) => j = k
              /\ Extents = SubSeq(old, 1, k - 1)
                           \o Remainders(old[k], start, n)
                           \o SubSeq(old, k + 1, Len(old))

\* An allocate has just taken blocks from the inside of one extent of a
\* free list of at least two, leaving two remainders.
C13_Witness ==
    /\ before.armed /\ before.op = "allocate"
    /\ Len(before.extents) >= 2
    /\ Len(Extents) = Len(before.extents) + 1

\* The blocks a snapshot's call named.
CallRange == before.start .. (before.start + before.n - 1)

\* C14: in every state reached by in-range calls with n >= 1 the free list
\* is a finite chain without a cycle: the head and every next reference are
\* None or a node, and following next from the head reaches None within as
\* many steps as there are nodes, so that every walk of the chain ends.
C14_ChainEnds ==
    /\ free_list \in DOMAIN heap \cup {None}
    /\ \A id \in DOMAIN heap : heap[id].next \in DOMAIN heap \cup {None}
    /\ Acyclic(heap, free_list)
    /\ Len(Extents) = Cardinality(DOMAIN heap)

\* A deallocate has walked past the head of the chain and linked a node
\* behind it.
C14_Witness ==
    /\ before.armed /\ before.op = "deallocate"
    /\ Len(before.extents) >= 1
    /\ before.extents[1][1] < before.start
    /\ Len(Extents) = Len(before.extents) + 1

\* C15: in every state reached by in-range calls with n >= 1, double frees
\* included, every node of the free list has size >= 1, start >= 0 and
\* start + size <= disk_size.
C15_ExtentsWithinDisk ==
    \A k \in 1 .. Len(Extents) :
        /\ Extents[k][2] >= 1
        /\ Extents[k][1] >= 0
        /\ Extents[k][1] + Extents[k][2] <= disk_size

\* A double free has just been merged into a neighbour: a block of the
\* freed range was free already, and the extent holding the range is
\* larger than the range.
C15_Witness ==
    /\ before.armed /\ before.op = "deallocate"
    /\ \E i \in CallRange : before.bitmap[i] = 0
    /\ \E k \in 1 .. Len(Extents) :
          /\ Extents[k][1] <= before.start
          /\ Extents[k][1] + Extents[k][2] >= before.start + before.n
          /\ Extents[k][2] > before.n
          /\ Extents[k][2] < disk_size

\* C16: in every state reached by in-range calls with n >= 1, double frees
\* included, every block whose bitmap entry is 0 lies in at least one
\* extent of the free list.
C16_FreeBlocksCovered ==
    \A i \in 0 .. (disk_size - 1) : bitmap[i] = 0 => Covered(i)

\* A deallocate has just freed a range of which one block was free already
\* and another was allocated.
C16_Witness ==
    /\ before.armed /\ before.op = "deallocate"
    /\ \E i \in CallRange : before.bitmap[i] = 0
    /\ \E j \in CallRange : before.bitmap[j] = 1
    /\ \A i \in CallRange : bitmap[i] = 0

====
